---- MODULE Spec2Model ----
(***************************************************************************)
(* Model of tern's common.py: the layer cache bridge (load_from_cache),    *)
(* the base package loader (add_base_packages), the package metadata       *)
(* filler (fill_package_metadata, get_package_dependencies), the           *)
(* installed-package extraction and the two command filters.               *)
(*                                                                         *)
(* Objects that Python shares by reference (Package) live in a heap and    *)
(* are held by reference; strings that the code concatenates are modelled  *)
(* as sequences of tokens and concatenated with \o.                        *)
(***************************************************************************)
EXTENDS Integers, Sequences, FiniteSets, Bags, TLC

\* ------------------------------------------------------------------------
\* Bounds
\* ------------------------------------------------------------------------
MaxLayers == 2      \* layers of the image
MaxLen == 2         \* length of a list returned by one invocation
MaxCalls == 2       \* operations applied in one run
MaxCmds == 3        \* commands recorded for a layer

VARIABLES
    image,      \* the Image object: name, tag, notices, layers
    heap,       \* Package objects allocated so far; a reference is an index
    cache,      \* the cache store: layer id -> cached record
    lib,        \* command library base listing for (image.name, image.tag)
    container,  \* what check_container() answers
    invoke,     \* the attribute invoker: listing key -> (values, message)
    log,        \* records written to the 'ternlog' logger
    calls,      \* operations applied so far
    op,         \* the last operation and what it returned
    pre,        \* the objects as they were when the last operation was called
    trace,      \* calls made by the last operation, in order
    pkg_obj,    \* the Package handed to fill_package_metadata
    pkg_listing,    \* the package listing: which keys it has
    answers,    \* what the invoker answers for the snippet listings
    ret,        \* what get_package_dependencies returned
    cmd_input,  \* the commands of the layer, as recorded
    command_list,   \* the list object passed to the last filter
    work,       \* the list the caller holds for the next filter
    ignore_commands,    \* text returned by remove_ignored_commands
    unrec_commands,     \* text returned by remove_unrecognized_commands
    applied,    \* the filters applied so far, in order
    based,      \* what the last add_base_packages left on the layers
    inst_command,   \* the Command handed to get_installed_packages
    pkgs        \* what get_installed_packages returned

imgVars == <<image, heap, cache, log, based>>
instVars == <<inst_command, pkgs>>
envVars == <<lib, container, invoke>>
fillVars == <<pkg_obj, pkg_listing, answers, ret>>
filtVars == <<cmd_input, command_list, work, ignore_commands, unrec_commands,
              applied>>

vars == <<image, heap, cache, lib, container, invoke, log, calls, op, pre,
          trace, pkg_obj, pkg_listing, answers, ret, cmd_input, command_list,
          work, ignore_commands, unrec_commands, applied, based,
          inst_command, pkgs>>

\* ------------------------------------------------------------------------
\* Values
\* ------------------------------------------------------------------------
\* An attribute that was never assigned.
UNSET == [of |-> "unset", at |-> 0]

\* The i-th value of the list an invocation of listing `key` returns.
Val(key, i) == [of |-> key, at |-> i]

\* The list of length n returned for listing `key`.
ValList(key, n) == [i \in 1..n |-> Val(key, i)]

LayerIds == <<"L1", "L2", "L3">>

\* utils.constants.shell
const_shell == "/bin/sh"

\* Shell declared by a base listing ("" when the listing declares none).
ListingShells == {"", "/bin/bash"}

\* The base listing of the command library; present = FALSE is a lookup
\* that found nothing.
Listings ==
    {[present |-> FALSE, shell |-> ""]}
        \cup {[present |-> TRUE, shell |-> s] : s \in ListingShells}

\* What one invocation can answer: a list of values with an empty message,
\* or no value with an error message.
InvokeAnswers(key) ==
    {[values |-> ValList(key, n), msg |-> <<>>] : n \in 0..MaxLen}
        \cup {[values |-> <<>>, msg |-> <<key>>]}

Invokers ==
    [names : InvokeAnswers("names"), versions : InvokeAnswers("versions"),
     licenses : InvokeAnswers("licenses"),
     src_urls : InvokeAnswers("src_urls")]

\* classes.notice.Notice(origin, message, level)
Notice(origin, message, level) ==
    [origin |-> origin, message |-> message, level |-> level]

\* classes.package.Package(name)
Package(name) ==
    [name |-> name, version |-> UNSET, license |-> UNSET, src_url |-> UNSET]

\* One call an operation makes to a collaborator.
Event(ev, key, sh, at) == [ev |-> ev, key |-> key, sh |-> sh, at |-> at]

\* ------------------------------------------------------------------------
\* Collaborators (classes.*, utils.cache)
\* ------------------------------------------------------------------------
\* image.add_notice(notice)
ImageAddNotice(st, n) ==
    [st EXCEPT !.image.notices = Append(@, n),
               !.trace = Append(@, Event("image.add_notice", n.level, "", 0))]

\* layer.add_notice(notice) on the i-th layer
LayerAddNotice(st, i, n) ==
    [st EXCEPT !.image.layers[i].notices = Append(@, n),
               !.trace = Append(@, Event("layer.add_notice", n.level, "", i))]

\* layer.add_package(pkg) on the i-th layer; pkg is held by reference
LayerAddPackage(st, i, ref) ==
    [st EXCEPT !.image.layers[i].packages = Append(@, ref),
               !.trace = Append(@, Event("layer.add_package",
                                         st.image.layers[i].id, "", ref))]

\* Package(...) allocates a new object
NewPackage(st, pkg) == [st EXCEPT !.heap = Append(@, pkg)]

\* cache.get_packages(layer_id)
CacheGetPackages(c, id) == c[id]

\* the attribute mapping cache.add_layer stores for one package
PackageToDict(pkg) ==
    [name |-> pkg.name, version |-> pkg.version, license |-> pkg.license,
     src_url |-> pkg.src_url]

\* cache.add_layer(layer) for the i-th layer
CacheAddLayer(st, i) ==
    LET layer == st.image.layers[i]
    IN [st EXCEPT
           !.cache[layer.id] =
               [present |-> TRUE,
                pkgs |-> [k \in 1..Len(layer.packages) |->
                             PackageToDict(st.heap[layer.packages[k]])]],
           !.trace = Append(@, Event("cache.add_layer", layer.id, "", i))]

\* pkg.fill(pkg_dict)
PackageFill(pkg, pkg_dict) ==
    [pkg EXCEPT !.version = pkg_dict.version, !.license = pkg_dict.license,
                !.src_url = pkg_dict.src_url]

\* cmdlib.get_pkg_attr_list(shell, info[key])
GetPkgAttrList(st, shell, key) ==
    [st EXCEPT !.trace = Append(@, Event("get_pkg_attr_list", key, shell, 0))]

\* ------------------------------------------------------------------------
\* load_from_cache
\* ------------------------------------------------------------------------
\* LoadPackages without `pkg.fill(pkg_dict)`
RECURSIVE LoadPackages_NoFill(_, _, _, _)
LoadPackages_NoFill(st, i, raw_pkg_list, k) ==
    IF k > Len(raw_pkg_list) THEN st
    ELSE LET st1 == NewPackage(st, Package(raw_pkg_list[k].name))
         IN LoadPackages_NoFill(LayerAddPackage(st1, i, Len(st1.heap)), i,
                                raw_pkg_list, k + 1)

\* the inner loop over raw_pkg_list, from its k-th mapping on
RECURSIVE LoadPackages(_, _, _, _)
LoadPackages(st, i, raw_pkg_list, k) ==
    IF k > Len(raw_pkg_list) THEN st
    ELSE LET pkg_dict == raw_pkg_list[k]
             pkg == PackageFill(Package(pkg_dict.name), pkg_dict)
             st1 == NewPackage(st, pkg)
         IN LoadPackages(LayerAddPackage(st1, i, Len(st1.heap)), i,
                         raw_pkg_list, k + 1)

\* CacheMiss testing `raw_pkg_list is None` instead of `not raw_pkg_list`
CacheMiss_NoneOnly(raw) == ~raw.present

\* `not raw_pkg_list`: None or an empty list
CacheMiss(raw) == ~raw.present \/ raw.pkgs = <<>>

\* NeedsLookup without the `if not layer.packages` test
NeedsLookup_Always(layer) == TRUE

\* `not layer.packages`
NeedsLookup(layer) == layer.packages = <<>>

\* the body of the loop of load_from_cache for the i-th layer
LoadLayer(st, i) ==
    LET layer == st.image.layers[i]
    IN IF NeedsLookup(layer)
       THEN LET raw == CacheGetPackages(st.cache, layer.id)
                st1 == [st EXCEPT !.trace =
                           Append(@, Event("cache.get_packages", layer.id,
                                           "", i))]
            IN IF CacheMiss(raw)
               THEN [st1 EXCEPT !.is_full = FALSE]
               ELSE LoadPackages(
                        LayerAddNotice(st1, i,
                            Notice(<<"image_option", layer.id>>,
                                   <<"loading_from_cache", layer.id>>,
                                   "info")),
                        i, raw.pkgs, 1)
       ELSE st

\* LoadLayers leaving the loop at the first miss
RECURSIVE LoadLayers_StopAtMiss(_, _)
LoadLayers_StopAtMiss(st, i) ==
    IF i > Len(st.image.layers) THEN st
    ELSE LET st1 == LoadLayer(st, i)
         IN IF st1.is_full THEN LoadLayers_StopAtMiss(st1, i + 1) ELSE st1

RECURSIVE LoadLayers(_, _)
LoadLayers(st, i) ==
    IF i > Len(st.image.layers) THEN st
    ELSE LoadLayers(LoadLayer(st, i), i + 1)

\* the state an operation starts from
Start ==
    [image |-> image, heap |-> heap, cache |-> cache, log |-> log,
     pkg_obj |-> pkg_obj, trace |-> <<>>, is_full |-> TRUE]

load_from_cache(st) == LoadLayers(st, 1)

\* ------------------------------------------------------------------------
\* add_base_packages
\* ------------------------------------------------------------------------
base_origin == <<"command_lib/base.yml">>

\* the two notices added when the listing declares no shell
NoShellNotices(st) ==
    ImageAddNotice(
        ImageAddNotice(st, Notice(base_origin, <<"no_shell_listing">>,
                                  "warning")),
        Notice(base_origin, <<"no_listing_for_base_key", "shell">>, "hint"))

\* SetVersion assigning whenever versions has an entry at index
SetVersion_Partial(pkg, names, versions, index) ==
    IF index <= Len(versions)
    THEN [pkg EXCEPT !.version = versions[index]]
    ELSE pkg

\* `if len(versions) == len(names): pkg.version = versions[index]`
SetVersion(pkg, names, versions, index) ==
    IF Len(versions) = Len(names)
    THEN [pkg EXCEPT !.version = versions[index]]
    ELSE pkg

\* `if len(licenses) == len(names): pkg.license = licenses[index]`
SetLicense(pkg, names, licenses, index) ==
    IF Len(licenses) = Len(names)
    THEN [pkg EXCEPT !.license = licenses[index]]
    ELSE pkg

\* AttachToLayers adding the package to the first layer only
AttachToLayers_FirstOnly(st, ref, i) ==
    IF i > Len(st.image.layers) THEN st ELSE LayerAddPackage(st, i, ref)

\* `for layer in image.layers: layer.add_package(pkg)`, from layer i on
RECURSIVE AttachToLayers(_, _, _)
AttachToLayers(st, ref, i) ==
    IF i > Len(st.image.layers) THEN st
    ELSE AttachToLayers(LayerAddPackage(st, i, ref), ref, i + 1)

\* SetSrcUrlAndAttach with the loop over the layers outside the length test
SetSrcUrlAndAttach_Unnested(st, pkg, names, src_urls, index) ==
    LET pkg1 == IF Len(src_urls) = Len(names)
                THEN [pkg EXCEPT !.src_url = src_urls[index]]
                ELSE pkg
        st1 == NewPackage(st, pkg1)
    IN AttachToLayers(st1, Len(st1.heap), 1)

\* `if len(src_urls) == len(names):` the source URL is set and the package
\* is added to every layer
SetSrcUrlAndAttach(st, pkg, names, src_urls, index) ==
    IF Len(src_urls) = Len(names)
    THEN LET st1 == NewPackage(st, [pkg EXCEPT !.src_url = src_urls[index]])
         IN AttachToLayers(st1, Len(st1.heap), 1)
    ELSE NewPackage(st, pkg)

\* the body of `for index in range(0, len(names))`
BuildPackage(st, names, versions, licenses, src_urls, index) ==
    LET pkg0 == Package(names[index])
        pkg1 == SetVersion(pkg0, names, versions, index)
        pkg2 == SetLicense(pkg1, names, licenses, index)
    IN SetSrcUrlAndAttach(st, pkg2, names, src_urls, index)

RECURSIVE BuildPackages(_, _, _, _, _, _)
BuildPackages(st, names, versions, licenses, src_urls, index) ==
    IF index > Len(names) THEN st
    ELSE BuildPackages(
             BuildPackage(st, names, versions, licenses, src_urls, index),
             names, versions, licenses, src_urls, index + 1)

\* `if names and len(names) > 1`
NamesGuard(names) == names # <<>> /\ Len(names) > 1

\* AddLayersToCache writing only the layers that hold a package
RECURSIVE AddLayersToCache_SkipEmpty(_, _)
AddLayersToCache_SkipEmpty(st, i) ==
    IF i > Len(st.image.layers) THEN st
    ELSE AddLayersToCache_SkipEmpty(
             IF st.image.layers[i].packages # <<>>
             THEN CacheAddLayer(st, i) ELSE st,
             i + 1)

\* `for layer in image.layers: cache.add_layer(layer)`, from layer i on
RECURSIVE AddLayersToCache(_, _)
AddLayersToCache(st, i) ==
    IF i > Len(st.image.layers) THEN st
    ELSE AddLayersToCache(CacheAddLayer(st, i), i + 1)

\* InvokeNotice without the `if invoke_msg:` test
InvokeNotice_Always(st, invoke_msg) ==
    ImageAddNotice(st, Notice(base_origin, invoke_msg, "error"))

\* `if invoke_msg:` one error notice with the concatenated messages
InvokeNotice(st, invoke_msg) ==
    IF invoke_msg # <<>>
    THEN ImageAddNotice(st, Notice(base_origin, invoke_msg, "error"))
    ELSE st

\* the branch taken when check_container() is true
WithContainer(st, shell, inv) ==
    LET st1 == GetPkgAttrList(st, shell, "names")
        st2 == GetPkgAttrList(st1, shell, "versions")
        st3 == GetPkgAttrList(st2, shell, "licenses")
        st4 == GetPkgAttrList(st3, shell, "src_urls")
        names == inv["names"].values
        versions == inv["versions"].values
        licenses == inv["licenses"].values
        src_urls == inv["src_urls"].values
        invoke_msg == inv["names"].msg \o inv["versions"].msg
                          \o inv["licenses"].msg \o inv["src_urls"].msg
        st5 == InvokeNotice(st4, invoke_msg)
        st6 == IF NamesGuard(names)
               THEN BuildPackages(st5, names, versions, licenses, src_urls, 1)
               ELSE st5
    IN AddLayersToCache(st6, 1)

\* the branch taken when check_container() is false
WithoutContainer(st) ==
    [st EXCEPT !.log = Append(@, <<"error", "no_running_docker_container">>)]

\* WithListing without `shell = const.shell`
WithListing_NoFallback(st, listing, running, inv) ==
    LET st1 == [st EXCEPT !.trace =
                   Append(@, Event("get_image_shell", "", "", 0))]
        st2 == IF listing.shell = "" THEN NoShellNotices(st1) ELSE st1
        st3 == [st2 EXCEPT !.trace =
                   Append(@, Event("check_container", "", "", 0))]
    IN IF running
       THEN WithContainer(st3, listing.shell, inv)
       ELSE WithoutContainer(st3)

\* the branch taken when the base listing exists
WithListing(st, listing, running, inv) ==
    LET st1 == [st EXCEPT !.trace =
                   Append(@, Event("get_image_shell", "", "", 0))]
        st2 == IF listing.shell = "" THEN NoShellNotices(st1) ELSE st1
        shell == IF listing.shell = "" THEN const_shell ELSE listing.shell
        st3 == [st2 EXCEPT !.trace =
                   Append(@, Event("check_container", "", "", 0))]
    IN IF running
       THEN WithContainer(st3, shell, inv)
       ELSE WithoutContainer(st3)

\* WithoutListing reporting the missing listing as a warning
WithoutListing_Warning(st) ==
    ImageAddNotice(st, Notice(base_origin, <<"no_image_tag_listing">>,
                              "warning"))

\* the branch taken when there is no base listing
WithoutListing(st) ==
    ImageAddNotice(st, Notice(base_origin, <<"no_image_tag_listing">>,
                              "error"))

add_base_packages(st, listing, running, inv) ==
    LET st1 == [st EXCEPT !.trace =
                   Append(@, Event("get_base_listing", "", "", 0))]
    IN IF listing.present
       THEN WithListing(st1, listing, running, inv)
       ELSE WithoutListing(st1)

\* ------------------------------------------------------------------------
\* fill_package_metadata
\* ------------------------------------------------------------------------
snippet_origin == <<"command_lib/snippets.yml">>

\* pkg_obj.add_notice(notice)
PackageAddNotice(st, n) ==
    [st EXCEPT !.pkg_obj.notices = Append(@, n),
               !.trace = Append(@, Event("pkg.add_notice", n.level, "", 0))]

\* cmdlib.check_library_key(pkg_listing, key): the call itself
CheckLibraryKey(st, key) ==
    [st EXCEPT !.trace = Append(@, Event("check_library_key", key, "", 0))]

\* One attribute of fill_package_metadata: the listing is looked up under
\* `key`; when it exists it is invoked, and the first value goes to the
\* attribute `attr`, an empty answer gives an 'error' notice; when it does
\* not exist a 'warning' notice is added.
FillAttribute(st, listing, shell, key, attr, answer) ==
    LET st1 == CheckLibraryKey(st, key)
    IN IF listing[key]
       THEN LET st2 == GetPkgAttrList(st1, shell, key)
            IN IF answer.values # <<>>
               THEN [st2 EXCEPT !.pkg_obj[attr] = answer.values[1]]
               ELSE PackageAddNotice(st2,
                        Notice(snippet_origin, answer.msg, "error"))
       ELSE PackageAddNotice(st1,
                Notice(snippet_origin, <<"no_listing_for_key", key>>,
                       "warning"))

\* `# version`
FillVersion(st, listing, shell, ans) ==
    FillAttribute(st, listing, shell, "version", "version", ans.version)

\* `# license`
FillLicense(st, listing, shell, ans) ==
    FillAttribute(st, listing, shell, "license", "license", ans.license)

\* FillSrcUrl looking its listing up under a key of its own
FillSrcUrl_OwnKey(st, listing, shell, ans) ==
    FillAttribute(st, listing, shell, "src_url", "src_url", ans.url)

\* `# src_urls`: the listing is looked up under 'license'
FillSrcUrl(st, listing, shell, ans) ==
    FillAttribute(st, listing, shell, "license", "src_url", ans.url)

\* fill_package_metadata returning as soon as the version was not set
fill_package_metadata_EarlyReturn(st, listing, shell, ans) ==
    LET st1 == FillVersion(st, listing, shell, ans)
    IN IF st1.pkg_obj.version = st.pkg_obj.version
       THEN st1
       ELSE FillSrcUrl(FillLicense(st1, listing, shell, ans),
                       listing, shell, ans)

fill_package_metadata(st, listing, shell, ans) ==
    FillSrcUrl(FillLicense(FillVersion(st, listing, shell, ans),
                           listing, shell, ans),
               listing, shell, ans)

\* ------------------------------------------------------------------------
\* get_package_dependencies
\* ------------------------------------------------------------------------
Range(seq) == {seq[i] : i \in DOMAIN seq}

\* list(deps_list): the raw list as it is
ListOfSet_Raw(deps_list) == {deps_list}

\* list(set(deps_list)): the distinct values, in an order Python does not
\* promise
ListOfSet(deps_list) ==
    {order \in [1..Cardinality(Range(deps_list)) -> Range(deps_list)] :
        Range(order) = Range(deps_list)}

\* the values get_package_dependencies can return
get_package_dependencies(listing, deps_answer) ==
    IF listing["deps"]
    THEN IF deps_answer.values # <<>>
         THEN {[deps |-> d, msg |-> <<>>] : d \in ListOfSet(deps_answer.values)}
         ELSE {[deps |-> <<>>, msg |-> deps_answer.msg]}
    ELSE {[deps |-> <<>>, msg |-> <<"no_listing_for_key", "deps">>]}

\* ------------------------------------------------------------------------
\* remove_ignored_commands, remove_unrecognized_commands
\* ------------------------------------------------------------------------
Newline == <<"\n">>

FilterResult(command_list_, text, filtered_list) ==
    [command_list |-> command_list_, text |-> text,
     filtered_list |-> filtered_list]

\* the loop of remove_ignored_commands taking the commands with pop()
RECURSIVE RemoveIgnoredLoop_PopLast(_, _, _)
RemoveIgnoredLoop_PopLast(command_list_, ignore_commands_, filtered_list) ==
    IF command_list_ = <<>>
    THEN FilterResult(command_list_, ignore_commands_, filtered_list)
    ELSE LET command == command_list_[Len(command_list_)]
             rest == SubSeq(command_list_, 1, Len(command_list_) - 1)
         IN IF command.set /\ command.ignore
            THEN RemoveIgnoredLoop_PopLast(rest,
                     ignore_commands_ \o command.shell_command \o Newline,
                     filtered_list)
            ELSE RemoveIgnoredLoop_PopLast(rest, ignore_commands_,
                     Append(filtered_list, command))

\* the loop of remove_ignored_commands testing is_ignore() only
RECURSIVE RemoveIgnoredLoop_NoSetCheck(_, _, _)
RemoveIgnoredLoop_NoSetCheck(command_list_, ignore_commands_, filtered_list) ==
    IF command_list_ = <<>>
    THEN FilterResult(command_list_, ignore_commands_, filtered_list)
    ELSE LET command == Head(command_list_)
             rest == Tail(command_list_)
         IN IF command.ignore
            THEN RemoveIgnoredLoop_NoSetCheck(rest,
                     ignore_commands_ \o command.shell_command \o Newline,
                     filtered_list)
            ELSE RemoveIgnoredLoop_NoSetCheck(rest, ignore_commands_,
                     Append(filtered_list, command))

\* `while command_list:` of remove_ignored_commands
RECURSIVE RemoveIgnoredLoop(_, _, _)
RemoveIgnoredLoop(command_list_, ignore_commands_, filtered_list) ==
    IF command_list_ = <<>>
    THEN FilterResult(command_list_, ignore_commands_, filtered_list)
    ELSE LET command == Head(command_list_)
             rest == Tail(command_list_)
         IN IF command.set /\ command.ignore
            THEN RemoveIgnoredLoop(rest,
                     ignore_commands_ \o command.shell_command \o Newline,
                     filtered_list)
            ELSE RemoveIgnoredLoop(rest, ignore_commands_,
                     Append(filtered_list, command))

remove_ignored_commands(command_list_) ==
    RemoveIgnoredLoop(command_list_, <<>>, <<>>)

\* the loop of remove_unrecognized_commands reading the commands without
\* taking them out of command_list
RECURSIVE RemoveUnrecognizedLoop_NoPop(_, _, _)
RemoveUnrecognizedLoop_NoPop(command_list_, unrec_commands_, filtered_list) ==
    IF command_list_ = <<>>
    THEN FilterResult(command_list_, unrec_commands_, filtered_list)
    ELSE LET command == Head(command_list_)
             r == IF ~command.set
                  THEN RemoveUnrecognizedLoop_NoPop(Tail(command_list_),
                           unrec_commands_ \o command.shell_command
                               \o Newline,
                           filtered_list)
                  ELSE RemoveUnrecognizedLoop_NoPop(Tail(command_list_),
                           unrec_commands_, Append(filtered_list, command))
         IN [r EXCEPT !.command_list = <<command>> \o @]

\* `while command_list:` of remove_unrecognized_commands
RECURSIVE RemoveUnrecognizedLoop(_, _, _)
RemoveUnrecognizedLoop(command_list_, unrec_commands_, filtered_list) ==
    IF command_list_ = <<>>
    THEN FilterResult(command_list_, unrec_commands_, filtered_list)
    ELSE LET command == Head(command_list_)
             rest == Tail(command_list_)
         IN IF ~command.set
            THEN RemoveUnrecognizedLoop(rest,
                     unrec_commands_ \o command.shell_command \o Newline,
                     filtered_list)
            ELSE RemoveUnrecognizedLoop(rest, unrec_commands_,
                     Append(filtered_list, command))

remove_unrecognized_commands(command_list_) ==
    RemoveUnrecognizedLoop(command_list_, <<>>, <<>>)

\* ------------------------------------------------------------------------
\* get_installed_packages
\* ------------------------------------------------------------------------
\* InstallGuard without the is_set() test
InstallGuard_InstallOnly(command) == command.install

\* `if command.is_set() and command.is_install()`
InstallGuard(command) == command.set /\ command.install

\* the list get_installed_packages returns
get_installed_packages(command) ==
    IF InstallGuard(command)
    THEN [i \in DOMAIN command.words |-> Package(command.words[i])]
    ELSE <<>>

\* ------------------------------------------------------------------------
\* The image under analysis: initial states and operations
\* ------------------------------------------------------------------------
\* a package a layer holds before any operation of this module runs
OldPackage ==
    [name |-> Val("old", 1), version |-> Val("old", 2),
     license |-> UNSET, src_url |-> UNSET]

\* the attribute mappings a cache record can hold for a layer
CachedDict(i) ==
    [name |-> Val("cached", i), version |-> Val("cached_version", i),
     license |-> UNSET, src_url |-> Val("cached_src_url", i)]

NotCached == [present |-> FALSE, pkgs |-> <<>>]
CachedEmpty == [present |-> TRUE, pkgs |-> <<>>]
CachedFull == [present |-> TRUE, pkgs |-> <<CachedDict(1), CachedDict(2)>>]

CacheRecords == {NotCached, CachedEmpty, CachedFull}

Ids(n) == {LayerIds[i] : i \in 1..n}

\* A layer either holds no package or holds its own OldPackage (heap[i]).
InitImages(n) ==
    {[name |-> "img", tag |-> "latest", notices |-> <<>>,
      layers |-> [i \in 1..n |->
                     [id |-> LayerIds[i],
                      packages |-> IF i \in has THEN <<i>> ELSE <<>>,
                      notices |-> <<>>]]] : has \in SUBSET (1..n)}

NoOp == [name |-> "none", is_full |-> TRUE]

Snapshot ==
    [image |-> image, heap |-> heap, cache |-> cache, log |-> log,
     pkg_obj |-> pkg_obj, work |-> work]

\* no add_base_packages has run on the image
NoBase ==
    [state |-> "none", ran |-> FALSE, started_empty |-> FALSE, pkgs |-> <<>>]

\* the attribute mappings of the packages the layers of st hold
LayerDicts(st) ==
    [l \in DOMAIN st.image.layers |->
        [k \in DOMAIN st.image.layers[l].packages |->
            PackageToDict(st.heap[st.image.layers[l].packages[k]])]]

\* an invoker that is never consulted
IdleInvoker ==
    [k \in {"names", "versions", "licenses", "src_urls"} |->
        [values |-> <<>>, msg |-> <<>>]]

\* image, is_full = load_from_cache(image)
LoadFromCache ==
    /\ calls < MaxCalls
    /\ LET st == load_from_cache(Start)
       IN /\ image' = st.image
          /\ heap' = st.heap
          /\ cache' = st.cache
          /\ log' = st.log
          /\ trace' = st.trace
          /\ op' = [name |-> "load_from_cache", is_full |-> st.is_full]
    /\ pre' = Snapshot
    /\ calls' = calls + 1
    /\ UNCHANGED <<envVars, fillVars, filtVars, instVars, based>>

\* add_base_packages(image, info)
AddBasePackages ==
    /\ calls < MaxCalls
    /\ LET st == add_base_packages(Start, lib, container, invoke)
       IN /\ image' = st.image
          /\ heap' = st.heap
          /\ cache' = st.cache
          /\ log' = st.log
          /\ trace' = st.trace
          /\ op' = [name |-> "add_base_packages", is_full |-> TRUE]
          /\ based' = [state |-> "based",
                       ran |-> lib.present /\ container,
                       started_empty |->
                           \A l \in DOMAIN image.layers :
                               image.layers[l].packages = <<>>,
                       pkgs |-> LayerDicts(st)]
    /\ pre' = Snapshot
    /\ calls' = calls + 1
    /\ UNCHANGED <<envVars, fillVars, filtVars, instVars>>

\* values of the variables an operation does not use
IdleEnv ==
    /\ lib = [present |-> FALSE, shell |-> ""]
    /\ container = FALSE
    /\ invoke = IdleInvoker

IdleImage ==
    /\ image = [name |-> "img", tag |-> "latest", notices |-> <<>>,
                layers |-> <<>>]
    /\ heap = <<>>
    /\ cache = <<>>
    /\ log = <<>>
    /\ based = NoBase

NoAnswer == [values |-> <<>>, msg |-> <<>>]

IdleFill ==
    /\ pkg_obj = Package(Val("pkg", 1)) @@ [notices |-> <<>>]
    /\ pkg_listing = [k \in {"version", "license", "src_url", "deps"} |->
                         FALSE]
    /\ answers = [version |-> NoAnswer, license |-> NoAnswer,
                  url |-> NoAnswer, deps |-> NoAnswer]
    /\ ret = [deps |-> <<>>, msg |-> <<>>]

IdleFilter ==
    /\ cmd_input = <<>>
    /\ command_list = <<>>
    /\ work = <<>>
    /\ ignore_commands = <<>>
    /\ unrec_commands = <<>>
    /\ applied = <<>>

\* a Command no operation looks at
IdleCommand ==
    [shell_command |-> <<>>, set |-> FALSE, install |-> FALSE,
     words |-> <<>>]

IdleInstall ==
    /\ inst_command = IdleCommand
    /\ pkgs = <<>>

\* --- the layer cache bridge: any image against any cache content ---------
InitCache ==
    /\ \E n \in 1..MaxLayers :
        /\ image \in InitImages(n)
        /\ cache \in [Ids(n) -> CacheRecords]
        /\ heap = [i \in 1..n |-> OldPackage]
    /\ based = NoBase
    /\ IdleInstall
    /\ IdleEnv
    /\ IdleFill
    /\ IdleFilter
    /\ log = <<>>
    /\ calls = 0
    /\ op = NoOp
    /\ pre = Snapshot
    /\ trace = <<>>

NextCache == LoadFromCache

SpecCache == InitCache /\ [][NextCache]_vars

\* --- the base package loader: any listing, container and invoker ---------
InitBase ==
    /\ \E n \in 1..MaxLayers :
        /\ image \in InitImages(n)
        /\ cache \in {[id \in Ids(n) |-> r] : r \in {NotCached, CachedFull}}
        /\ heap = [i \in 1..n |-> OldPackage]
    /\ based = NoBase
    /\ IdleInstall
    /\ lib \in Listings
    /\ container \in BOOLEAN
    /\ invoke \in Invokers
    /\ IdleFill
    /\ IdleFilter
    /\ log = <<>>
    /\ calls = 0
    /\ op = NoOp
    /\ pre = Snapshot
    /\ trace = <<>>

NextBase == AddBasePackages

SpecBase == InitBase /\ [][NextBase]_vars

\* --- the cache round trip: base resolution, then a later run -------------
\* an image of n layers as it is built before any analysis
FreshImage(n) ==
    [name |-> "img", tag |-> "latest", notices |-> <<>>,
     layers |-> [i \in 1..n |->
                    [id |-> LayerIds[i], packages |-> <<>>,
                     notices |-> <<>>]]]

InitRound ==
    /\ \E n \in 1..MaxLayers :
        /\ image = FreshImage(n)
        /\ cache = [id \in Ids(n) |-> NotCached]
    /\ heap = <<>>
    /\ based = NoBase
    /\ IdleInstall
    /\ lib \in Listings
    /\ container \in BOOLEAN
    /\ invoke \in Invokers
    /\ IdleFill
    /\ IdleFilter
    /\ log = <<>>
    /\ calls = 0
    /\ op = NoOp
    /\ pre = Snapshot
    /\ trace = <<>>

\* A later run builds the image again: same layer ids, no packages, no
\* notices, no Package object; the cache store keeps what it holds.
NewImage ==
    /\ based.state = "based"
    /\ image' = FreshImage(Len(image.layers))
    /\ heap' = <<>>
    /\ log' = <<>>
    /\ based' = [based EXCEPT !.state = "renewed"]
    /\ op' = [name |-> "new_image", is_full |-> TRUE]
    /\ pre' = Snapshot
    /\ trace' = <<>>
    /\ UNCHANGED <<cache, calls, envVars, fillVars, filtVars, instVars>>

NextRound == AddBasePackages \/ NewImage \/ LoadFromCache

SpecRound == InitRound /\ [][NextRound]_vars

\* --- the metadata filler: any listing and any answers of the invoker ----
\* the shell of the layer, handed to fill_package_metadata
snippet_shell == "/bin/bash"

\* what the invoker can answer for one snippet listing
FillAnswers(label) ==
    {[values |-> ValList(label, n), msg |-> <<>>] : n \in 0..MaxLen}
        \cup {[values |-> <<>>, msg |-> <<label, "failed">>]}

DepNames == {"x", "y"}

\* raw dependency lists, repeated names included
DepsAnswers ==
    {[values |-> v, msg |-> <<>>] :
        v \in UNION {[1..n -> DepNames] : n \in 0..MaxLen}}
        \cup {[values |-> <<>>, msg |-> <<"deps", "failed">>]}

InitFill ==
    /\ IdleImage
    /\ IdleInstall
    /\ IdleEnv
    /\ IdleFilter
    /\ pkg_obj = Package(Val("pkg", 1)) @@ [notices |-> <<>>]
    /\ pkg_listing \in [{"version", "license", "src_url", "deps"} -> BOOLEAN]
    /\ answers \in [version : FillAnswers("version"),
                    license : FillAnswers("license"),
                    url : FillAnswers("url") \cup FillAnswers("license"),
                    deps : DepsAnswers]
    /\ ret = [deps |-> <<>>, msg |-> <<>>]
    /\ calls = 0
    /\ op = NoOp
    /\ pre = Snapshot
    /\ trace = <<>>

\* fill_package_metadata(pkg_obj, pkg_listing, shell)
FillPackageMetadata ==
    /\ calls < MaxCalls
    /\ LET st == fill_package_metadata(Start, pkg_listing, snippet_shell,
                                       answers)
       IN /\ pkg_obj' = st.pkg_obj
          /\ trace' = st.trace
    /\ op' = [name |-> "fill_package_metadata", is_full |-> TRUE]
    /\ pre' = Snapshot
    /\ calls' = calls + 1
    /\ UNCHANGED <<imgVars, envVars, filtVars, instVars, pkg_listing, answers,
                   ret>>

\* deps, msg = get_package_dependencies(package_listing, package_name, shell)
GetPackageDependencies ==
    /\ calls < MaxCalls
    /\ ret' \in get_package_dependencies(pkg_listing, answers.deps)
    /\ trace' = IF pkg_listing["deps"]
                THEN <<Event("check_library_key", "deps", "", 0),
                       Event("get_pkg_attr_list", "deps", snippet_shell, 0)>>
                ELSE <<Event("check_library_key", "deps", "", 0)>>
    /\ op' = [name |-> "get_package_dependencies", is_full |-> TRUE]
    /\ pre' = Snapshot
    /\ calls' = calls + 1
    /\ UNCHANGED <<imgVars, envVars, filtVars, instVars, pkg_obj, pkg_listing,
                   answers>>

NextFill == FillPackageMetadata \/ GetPackageDependencies

SpecFill == InitFill /\ [][NextFill]_vars

\* --- the command filters: any recorded command list ----------------------
ShellCommands == {<<"a">>, <<"b", "c">>}

\* a Command: its text, whether it is set (recognized), whether it is
\* classified as ignore
Commands == [shell_command : ShellCommands, set : BOOLEAN, ignore : BOOLEAN]

InitFilter ==
    /\ IdleImage
    /\ IdleInstall
    /\ IdleEnv
    /\ IdleFill
    /\ cmd_input \in UNION {[1..n -> Commands] : n \in 0..MaxCmds}
    /\ work = cmd_input
    /\ command_list = <<>>
    /\ ignore_commands = <<>>
    /\ unrec_commands = <<>>
    /\ applied = <<>>
    /\ calls = 0
    /\ op = NoOp
    /\ pre = Snapshot
    /\ trace = <<>>

\* ignore_commands, work = remove_ignored_commands(work)
RemoveIgnoredCommands ==
    /\ calls < MaxCalls
    /\ LET r == remove_ignored_commands(work)
       IN /\ command_list' = r.command_list
          /\ ignore_commands' = r.text
          /\ work' = r.filtered_list
    /\ applied' = Append(applied, "ignored")
    /\ op' = [name |-> "remove_ignored_commands", is_full |-> TRUE]
    /\ pre' = Snapshot
    /\ calls' = calls + 1
    /\ UNCHANGED <<imgVars, envVars, fillVars, instVars, trace, cmd_input,
                   unrec_commands>>

\* unrec_commands, work = remove_unrecognized_commands(work)
RemoveUnrecognizedCommands ==
    /\ calls < MaxCalls
    /\ LET r == remove_unrecognized_commands(work)
       IN /\ command_list' = r.command_list
          /\ unrec_commands' = r.text
          /\ work' = r.filtered_list
    /\ applied' = Append(applied, "unrecognized")
    /\ op' = [name |-> "remove_unrecognized_commands", is_full |-> TRUE]
    /\ pre' = Snapshot
    /\ calls' = calls + 1
    /\ UNCHANGED <<imgVars, envVars, fillVars, instVars, trace, cmd_input,
                   ignore_commands>>

NextFilter == RemoveIgnoredCommands \/ RemoveUnrecognizedCommands

SpecFilter == InitFilter /\ [][NextFilter]_vars

\* --- installed packages of a command: any flags and any words ------------
Words == {"pkg1", "pkg2", "pkg3"}

InstallCommands ==
    [shell_command : ShellCommands, set : BOOLEAN, install : BOOLEAN,
     words : UNION {[1..n -> Words] : n \in 0..MaxLen}]

InitInstall ==
    /\ IdleImage
    /\ IdleEnv
    /\ IdleFill
    /\ IdleFilter
    /\ inst_command \in InstallCommands
    /\ pkgs = <<>>
    /\ calls = 0
    /\ op = NoOp
    /\ pre = Snapshot
    /\ trace = <<>>

\* pkgs = get_installed_packages(command)
GetInstalledPackages ==
    /\ calls < MaxCalls
    /\ pkgs' = get_installed_packages(inst_command)
    /\ op' = [name |-> "get_installed_packages", is_full |-> TRUE]
    /\ pre' = Snapshot
    /\ calls' = calls + 1
    /\ UNCHANGED <<imgVars, envVars, fillVars, filtVars, trace, inst_command>>

NextInstall == GetInstalledPackages

SpecInstall == InitInstall /\ [][NextInstall]_vars

\* ------------------------------------------------------------------------
\* Properties of load_from_cache (checked under SpecCache)
\* ------------------------------------------------------------------------
IsLoad == op.name = "load_from_cache"

Layers == DOMAIN image.layers

\* the layer held packages when the last operation was called
HadPackages(i) == pre.image.layers[i].packages # <<>>

\* the last operation queried the cache for layer id
Queried(id) ==
    \E e \in DOMAIN trace :
        trace[e].ev = "cache.get_packages" /\ trace[e].key = id

\* C2: load_from_cache returns is_complete = true if and only if every
\* layer of the image holds a non-empty package set when the call returns.
C2_CompleteIffAllLayersFilled ==
    IsLoad =>
        (op.is_full <=> \A i \in Layers : image.layers[i].packages # <<>>)

\* a complete load in which a layer was hydrated from the cache
C2_Witness ==
    /\ IsLoad
    /\ op.is_full
    /\ \E i \in Layers : ~HadPackages(i) /\ image.layers[i].packages # <<>>

\* C3: a layer that already holds a package when load_from_cache is called
\* is not looked up in the cache and keeps its packages and notices, whatever
\* happens to the other layers.
C3_FilledLayersUntouched ==
    IsLoad =>
        \A i \in Layers :
            HadPackages(i) =>
                /\ ~Queried(image.layers[i].id)
                /\ image.layers[i] = pre.image.layers[i]
                /\ \A k \in DOMAIN image.layers[i].packages :
                       heap[image.layers[i].packages[k]]
                           = pre.heap[image.layers[i].packages[k]]

\* a load that left one layer alone while it hydrated another one
C3_Witness ==
    /\ IsLoad
    /\ \E i, j \in Layers :
        /\ HadPackages(i)
        /\ ~HadPackages(j)
        /\ image.layers[j].packages # <<>>
        /\ image.layers[j].notices # <<>>

\* ------------------------------------------------------------------------
\* Properties of add_base_packages (checked under SpecBase)
\* ------------------------------------------------------------------------
IsBase == op.name = "add_base_packages"

\* the call reached the branch that invokes the attribute listings
Invoked == IsBase /\ lib.present /\ container

InvNames == invoke.names.values
InvVersions == invoke.versions.values
InvLicenses == invoke.licenses.values
InvSrcUrls == invoke.src_urls.values

\* packages the last operation allocated, in allocation order
Built == SubSeq(heap, Len(pre.heap) + 1, Len(heap))

\* the last operation called `ev` at least once
Called(ev) == \E e \in DOMAIN trace : trace[e].ev = ev

LayersUnchanged == image.layers = pre.image.layers

\* C1 (as claimed): with a base listing and no running container the call
\* leaves the image unmodified: no notice, no package, no cache write.
C1_NoContainerNoMutation ==
    (IsBase /\ lib.present /\ ~container) =>
        /\ image = pre.image
        /\ cache = pre.cache
        /\ ~Called("image.add_notice")
        /\ ~Called("layer.add_package")
        /\ ~Called("cache.add_layer")

\* C6: with a listing and a running container, n > 1 names and n versions,
\* licenses and source URLs, every layer gains, for every index i, a package
\* named names[i] with versions[i], licenses[i] and src_urls[i].
C6_AlignedPackagesOnEveryLayer ==
    (/\ Invoked
     /\ Len(InvNames) > 1
     /\ Len(InvVersions) = Len(InvNames)
     /\ Len(InvLicenses) = Len(InvNames)
     /\ Len(InvSrcUrls) = Len(InvNames)) =>
        \A i \in DOMAIN InvNames :
            \A l \in Layers :
                \E k \in DOMAIN image.layers[l].packages :
                    /\ k > Len(pre.image.layers[l].packages)
                    /\ image.layers[l].packages[k] > Len(pre.heap)
                    /\ heap[image.layers[l].packages[k]] =
                           [name |-> InvNames[i],
                            version |-> InvVersions[i],
                            license |-> InvLicenses[i],
                            src_url |-> InvSrcUrls[i]]

\* an aligned call on an image of at least two layers
C6_Witness ==
    /\ Invoked
    /\ Len(InvNames) > 1
    /\ Len(InvVersions) = Len(InvNames)
    /\ Len(InvLicenses) = Len(InvNames)
    /\ Len(InvSrcUrls) = Len(InvNames)
    /\ Len(image.layers) > 1
    /\ \A l \in Layers :
           Len(image.layers[l].packages)
               = Len(pre.image.layers[l].packages) + Len(InvNames)

\* the notices of the image, of its layers and the log are as before the call
NoNoticeAdded ==
    /\ image.notices = pre.image.notices
    /\ \A l \in Layers : image.layers[l].notices = pre.image.layers[l].notices
    /\ ~Called("image.add_notice")
    /\ ~Called("layer.add_notice")

\* C7: a package built by add_base_packages has version versions[i] when
\* len(versions) = len(names) and no version otherwise; the same holds for
\* the license with licenses, whatever the other lists are; a length
\* mismatch by itself adds no notice.
C7_ExactAlignmentOrUnset ==
    (Invoked /\ Len(InvNames) > 1) =>
        /\ Len(Built) = Len(InvNames)
        /\ \A i \in DOMAIN InvNames :
            /\ Built[i].name = InvNames[i]
            /\ Built[i].version =
                   IF Len(InvVersions) = Len(InvNames)
                   THEN InvVersions[i] ELSE UNSET
            /\ Built[i].license =
                   IF Len(InvLicenses) = Len(InvNames)
                   THEN InvLicenses[i] ELSE UNSET
        /\ (/\ lib.shell # ""
            /\ \A k \in DOMAIN invoke : invoke[k].msg = <<>>) => NoNoticeAdded

\* versions is shorter than names but not empty, licenses is aligned, and no
\* invocation reported an error
C7_Witness ==
    /\ Invoked
    /\ Len(InvNames) > 1
    /\ Len(InvVersions) > 0
    /\ Len(InvVersions) < Len(InvNames)
    /\ Len(InvLicenses) = Len(InvNames)
    /\ lib.shell # ""
    /\ \A k \in DOMAIN invoke : invoke[k].msg = <<>>
    /\ Len(Built) = Len(InvNames)

\* C8: add_base_packages adds a package to a layer only when names has
\* more than one entry and src_urls is as long as names; otherwise no
\* layer's packages change.
C8_AttachOnlyWhenSrcUrlsAlign ==
    (IsBase /\ ~(Invoked /\ Len(InvNames) > 1
                    /\ Len(InvSrcUrls) = Len(InvNames))) =>
        /\ \A l \in Layers :
               image.layers[l].packages = pre.image.layers[l].packages
        /\ ~Called("layer.add_package")

\* names, versions and licenses align, src_urls does not: nothing attached
C8_Witness ==
    /\ Invoked
    /\ Len(InvNames) > 1
    /\ Len(InvVersions) = Len(InvNames)
    /\ Len(InvLicenses) = Len(InvNames)
    /\ Len(InvSrcUrls) # Len(InvNames)
    /\ Len(Built) = Len(InvNames)
    /\ \A l \in Layers :
           image.layers[l].packages = pre.image.layers[l].packages

\* C10: without a base listing add_base_packages adds exactly one 'error'
\* notice to the image and stops: no container check, no invocation, no
\* package on any layer, no cache write.
C10_NoListingOneErrorNotice ==
    (IsBase /\ ~lib.present) =>
        /\ Len(image.notices) = Len(pre.image.notices) + 1
        /\ SubSeq(image.notices, 1, Len(pre.image.notices))
               = pre.image.notices
        /\ image.notices[Len(image.notices)].level = "error"
        /\ trace = <<Event("get_base_listing", "", "", 0),
                     Event("image.add_notice", "error", "", 0)>>
        /\ LayersUnchanged
        /\ heap = pre.heap
        /\ cache = pre.cache
        /\ log = pre.log

\* no listing although a container is running
C10_Witness ==
    /\ IsBase
    /\ ~lib.present
    /\ container
    /\ Len(image.notices) = Len(pre.image.notices) + 1

\* ------------------------------------------------------------------------
\* Properties of the command filters (checked under SpecFilter)
\* ------------------------------------------------------------------------
\* the lines of a text, each without its terminating newline
RECURSIVE Lines(_)
Lines(text) ==
    IF text = <<>> THEN <<>>
    ELSE IF \E k \in DOMAIN text : text[k] = "\n"
         THEN LET k == CHOOSE k \in DOMAIN text :
                           /\ text[k] = "\n"
                           /\ \A j \in 1..(k - 1) : text[j] # "\n"
              IN <<SubSeq(text, 1, k - 1)>>
                     \o Lines(SubSeq(text, k + 1, Len(text)))
         ELSE <<text>>

BagOfSeq(seq) ==
    [x \in Range(seq) |-> Cardinality({i \in DOMAIN seq : seq[i] = x})]

ShellCommandsOf(cmds) == [i \in DOMAIN cmds |-> cmds[i].shell_command]

\* s can be obtained from t by deleting elements
RECURSIVE IsSubSeq(_, _)
IsSubSeq(s, t) ==
    IF s = <<>> THEN TRUE
    ELSE IF t = <<>> THEN FALSE
    ELSE IF Head(s) = Head(t) THEN IsSubSeq(Tail(s), Tail(t))
    ELSE IsSubSeq(s, Tail(t))

Pipeline == applied = <<"ignored", "unrecognized">>

\* C4: remove_ignored_commands followed by remove_unrecognized_commands on
\* its filtered output partitions the input: the commands named in the
\* ignored text, in the unrecognized text and in the final list are, as a
\* multiset, the input, and the final list keeps the input's order.
C4_FiltersPartitionInput ==
    Pipeline =>
        /\ BagOfSeq(Lines(ignore_commands))
               (+) BagOfSeq(Lines(unrec_commands))
               (+) BagOfSeq(ShellCommandsOf(work))
             = BagOfSeq(ShellCommandsOf(cmd_input))
        /\ IsSubSeq(work, cmd_input)
        /\ Len(Lines(ignore_commands)) + Len(Lines(unrec_commands))
               + Len(work) = Len(cmd_input)

\* a pipeline run whose three outputs are all non-empty
C4_Witness ==
    /\ Pipeline
    /\ ignore_commands # <<>>
    /\ unrec_commands # <<>>
    /\ work # <<>>

\* ------------------------------------------------------------------------
\* Properties of the metadata filler (checked under SpecFill)
\* ------------------------------------------------------------------------
IsFill == op.name = "fill_package_metadata"

\* the three attempts: the key the listing is looked up under, the
\* attribute it fills and the answer of its invocation
Attempts ==
    <<[key |-> "version", attr |-> "version", ans |-> answers.version],
      [key |-> "license", attr |-> "license", ans |-> answers.license],
      [key |-> "license", attr |-> "src_url", ans |-> answers.url]>>

\* what happens to an attempt: "set", or the level of the notice it adds
Outcome(a) ==
    IF pkg_listing[a.key]
    THEN IF a.ans.values # <<>> THEN "set" ELSE "error"
    ELSE "warning"

RECURSIVE ExpectedLevels(_)
ExpectedLevels(k) ==
    IF k = 0 THEN <<>>
    ELSE ExpectedLevels(k - 1)
             \o (IF Outcome(Attempts[k]) = "set" THEN <<>>
                 ELSE <<Outcome(Attempts[k])>>)

AddedNotices ==
    SubSeq(pkg_obj.notices, Len(pre.pkg_obj.notices) + 1,
           Len(pkg_obj.notices))

LookedUp ==
    SelectSeq(trace, LAMBDA e : e.ev = "check_library_key")

\* C5: fill_package_metadata attempts version, license and source URL in
\* every case; an attempt either sets the attribute to the first value and
\* adds no notice, or adds one 'error' notice (listing present, no value),
\* or adds one 'warning' notice (listing absent); the notices added are
\* exactly those of the attempts that set nothing.
C5_ThreeIndependentAttempts ==
    IsFill =>
        /\ Len(LookedUp) = Len(Attempts)
        /\ \A k \in DOMAIN Attempts : LookedUp[k].key = Attempts[k].key
        /\ [k \in DOMAIN AddedNotices |-> AddedNotices[k].level]
               = ExpectedLevels(Len(Attempts))
        /\ SubSeq(pkg_obj.notices, 1, Len(pre.pkg_obj.notices))
               = pre.pkg_obj.notices
        /\ \A k \in DOMAIN Attempts :
               pkg_obj[Attempts[k].attr] =
                   IF Outcome(Attempts[k]) = "set"
                   THEN Attempts[k].ans.values[1]
                   ELSE pre.pkg_obj[Attempts[k].attr]

\* one call in which the version has no listing, the license is set and
\* the source URL invocation returns nothing
C5_Witness ==
    /\ IsFill
    /\ Outcome(Attempts[1]) = "warning"
    /\ Outcome(Attempts[2]) = "set"
    /\ Outcome(Attempts[3]) = "error"
    /\ pkg_obj.license = answers.license.values[1]
    /\ Len(AddedNotices) = 2

IsDeps == op.name = "get_package_dependencies"

\* C9: get_package_dependencies never returns a name twice; with a 'deps'
\* listing and a non-empty answer it returns exactly the distinct values of
\* the answer, each once, and an empty message.
C9_DependenciesDistinct ==
    IsDeps =>
        /\ \A i, j \in DOMAIN ret.deps :
               ret.deps[i] = ret.deps[j] => i = j
        /\ (pkg_listing["deps"] /\ answers.deps.values # <<>>) =>
               /\ Range(ret.deps) = Range(answers.deps.values)
               /\ Len(ret.deps) = Cardinality(Range(answers.deps.values))
               /\ ret.msg = <<>>

\* the raw answer repeats a name and the result is shorter than the answer
C9_Witness ==
    /\ IsDeps
    /\ pkg_listing["deps"]
    /\ Len(answers.deps.values) > Cardinality(Range(answers.deps.values))
    /\ ret.deps # <<>>
    /\ Len(ret.deps) < Len(answers.deps.values)

\* ------------------------------------------------------------------------
\* Further properties of add_base_packages (checked under SpecBase)
\* ------------------------------------------------------------------------
\* the calls to cache.add_layer of the last operation, in order
CacheWrites == SelectSeq(trace, LAMBDA e : e.ev = "cache.add_layer")

\* C11: with a base listing and a running container cache.add_layer is
\* called exactly once per layer, in image order, after every package of
\* the call has been attached, whether or not a package was attached.
C11_CacheWrittenOncePerLayerAtEnd ==
    Invoked =>
        /\ Len(CacheWrites) = Len(image.layers)
        /\ \A l \in Layers :
               /\ CacheWrites[l].at = l
               /\ CacheWrites[l].key = image.layers[l].id
        /\ SubSeq(trace, Len(trace) - Len(image.layers) + 1, Len(trace))
               = CacheWrites
        /\ \A l \in Layers :
               cache[image.layers[l].id].present
                   /\ Len(cache[image.layers[l].id].pkgs)
                          = Len(image.layers[l].packages)

\* a call on two layers without packages that attached nothing and still
\* wrote both layers
C11_Witness ==
    /\ Invoked
    /\ Len(image.layers) > 1
    /\ ~Called("layer.add_package")
    /\ \A l \in Layers : image.layers[l].packages = <<>>
    /\ Len(CacheWrites) = Len(image.layers)

\* ------------------------------------------------------------------------
\* Further properties of load_from_cache (checked under SpecCache)
\* ------------------------------------------------------------------------
\* the cache queries of the last operation for the l-th layer
QueriesFor(l) ==
    SelectSeq(trace, LAMBDA e : e.ev = "cache.get_packages" /\ e.at = l)

\* the cache held a non-empty package list for the l-th layer
Hit(l) ==
    /\ pre.cache[image.layers[l].id].present
    /\ pre.cache[image.layers[l].id].pkgs # <<>>

\* C12: load_from_cache looks up every layer without packages, also after
\* an earlier miss; a hit adds one 'info' notice and one package per cached
\* mapping, named as the mapping; a miss adds nothing.
C12_EveryEmptyLayerLookedUp ==
    IsLoad =>
        \A l \in Layers :
            ~HadPackages(l) =>
                /\ Len(QueriesFor(l)) = 1
                /\ QueriesFor(l)[1].key = image.layers[l].id
                /\ IF Hit(l)
                   THEN LET cached == pre.cache[image.layers[l].id].pkgs
                        IN /\ Len(image.layers[l].notices)
                                = Len(pre.image.layers[l].notices) + 1
                           /\ image.layers[l].notices[
                                  Len(image.layers[l].notices)].level = "info"
                           /\ Len(image.layers[l].packages) = Len(cached)
                           /\ \A k \in DOMAIN cached :
                                  heap[image.layers[l].packages[k]].name
                                      = cached[k].name
                   ELSE image.layers[l] = pre.image.layers[l]

\* the first layer missed and a later layer was hydrated
C12_Witness ==
    /\ IsLoad
    /\ \E l1, l2 \in Layers :
        /\ l1 < l2
        /\ ~HadPackages(l1) /\ ~Hit(l1)
        /\ ~HadPackages(l2) /\ Hit(l2)
        /\ Len(image.layers[l2].packages) > 1

\* ------------------------------------------------------------------------
\* Further properties of the command filters (checked under SpecFilter)
\* ------------------------------------------------------------------------
\* the text the last filter returned
LastText ==
    IF applied[Len(applied)] = "ignored"
    THEN ignore_commands ELSE unrec_commands

\* C13: a filter returns for every command list and leaves the list it was
\* handed empty; each command of that list is either named in the returned
\* text or held by the returned list.
C13_FilterDrainsItsInput ==
    applied # <<>> =>
        /\ command_list = <<>>
        /\ Len(Lines(LastText)) + Len(work) = Len(pre.work)
        /\ BagOfSeq(Lines(LastText)) (+) BagOfSeq(ShellCommandsOf(work))
               = BagOfSeq(ShellCommandsOf(pre.work))

\* remove_unrecognized_commands took some commands and kept others
C13_Witness ==
    /\ applied = <<"unrecognized">>
    /\ Len(pre.work) > 1
    /\ unrec_commands # <<>>
    /\ work # <<>>
    /\ command_list = <<>>

\* ------------------------------------------------------------------------
\* Properties of get_installed_packages (checked under SpecInstall)
\* ------------------------------------------------------------------------
IsInstalled == op.name = "get_installed_packages"

\* C14: get_installed_packages returns packages only for a command that is
\* set and classified as install: one bare package per word, in word order;
\* for every other command it returns the empty list.
C14_PackagesOnlyForSetInstall ==
    IsInstalled =>
        IF inst_command.set /\ inst_command.install
        THEN /\ Len(pkgs) = Len(inst_command.words)
             /\ \A i \in DOMAIN pkgs :
                    /\ pkgs[i].name = inst_command.words[i]
                    /\ pkgs[i].version = UNSET
                    /\ pkgs[i].license = UNSET
                    /\ pkgs[i].src_url = UNSET
        ELSE pkgs = <<>>

\* a set install command with two different words
C14_Witness ==
    /\ IsInstalled
    /\ inst_command.set
    /\ inst_command.install
    /\ Len(pkgs) > 1
    /\ pkgs[1].name # pkgs[2].name

\* ------------------------------------------------------------------------
\* Notices and shell of add_base_packages (checked under SpecBase)
\* ------------------------------------------------------------------------
\* the notices the last operation added to the image
AddedToImage ==
    SubSeq(image.notices, Len(pre.image.notices) + 1, Len(image.notices))

WithLevel(notices, level) == SelectSeq(notices, LAMBDA n : n.level = level)

\* the attribute invocations of the last operation, in order
Invocations == SelectSeq(trace, LAMBDA e : e.ev = "get_pkg_attr_list")

\* C15: a listing without shell gives exactly one 'warning' notice followed
\* by exactly one 'hint' notice, and the default shell is the shell of all
\* four invocations; a listing with a shell gives neither notice and its
\* shell is the shell of the invocations.
C15_NoShellWarningHintAndDefault ==
    (IsBase /\ lib.present) =>
        /\ IF lib.shell = ""
           THEN /\ Len(AddedToImage) >= 2
                /\ AddedToImage[1].level = "warning"
                /\ AddedToImage[2].level = "hint"
                /\ Len(WithLevel(AddedToImage, "warning")) = 1
                /\ Len(WithLevel(AddedToImage, "hint")) = 1
                /\ \A e \in DOMAIN Invocations :
                       Invocations[e].sh = const_shell
           ELSE /\ WithLevel(AddedToImage, "warning") = <<>>
                /\ WithLevel(AddedToImage, "hint") = <<>>
                /\ \A e \in DOMAIN Invocations :
                       Invocations[e].sh = lib.shell
        /\ Len(Invocations) = IF container THEN 4 ELSE 0
        /\ container =>
               [e \in DOMAIN Invocations |-> Invocations[e].key]
                   = <<"names", "versions", "licenses", "src_urls">>

\* a listing without shell, a running container, four invocations
C15_Witness ==
    /\ Invoked
    /\ lib.shell = ""
    /\ Len(Invocations) = 4
    /\ Invocations[1].sh = const_shell
    /\ Len(AddedToImage) = 2

\* the messages of the four invocations, in the order of the calls
AllInvokeMessages ==
    invoke.names.msg \o invoke.versions.msg \o invoke.licenses.msg
        \o invoke.src_urls.msg

\* the position in trace of the first event named ev (0 when there is none)
FirstEvent(ev) ==
    IF Called(ev)
    THEN CHOOSE e \in DOMAIN trace :
             /\ trace[e].ev = ev
             /\ \A f \in 1..(e - 1) : trace[f].ev # ev
    ELSE 0

\* C16: with a running container the four messages are concatenated in the
\* order names, versions, licenses, src_urls; the image gains one 'error'
\* notice carrying the concatenation when it is not empty and no 'error'
\* notice when it is empty; packages are still built after the notice.
C16_OneNoticeForAllInvocations ==
    Invoked =>
        /\ WithLevel(AddedToImage, "error") =
               IF AllInvokeMessages # <<>>
               THEN <<Notice(base_origin, AllInvokeMessages, "error")>>
               ELSE <<>>
        /\ Len(InvNames) > 1 => Len(Built) = Len(InvNames)
        /\ (Called("layer.add_package") /\ AllInvokeMessages # <<>>) =>
               \E e \in DOMAIN trace :
                   /\ trace[e].ev = "image.add_notice"
                   /\ trace[e].key = "error"
                   /\ e < FirstEvent("layer.add_package")

\* versions and licenses failed, names and src_urls align: one notice with
\* both messages, and the packages are attached after it
C16_Witness ==
    /\ Invoked
    /\ AllInvokeMessages = invoke.versions.msg \o invoke.licenses.msg
    /\ invoke.versions.msg # <<>>
    /\ invoke.licenses.msg # <<>>
    /\ Len(WithLevel(AddedToImage, "error")) = 1
    /\ Called("layer.add_package")

\* ------------------------------------------------------------------------
\* The source URL of fill_package_metadata (checked under SpecFill)
\* ------------------------------------------------------------------------
\* the levels of the last two notices the call added
LastTwoLevels ==
    IF Len(AddedNotices) < 2 THEN <<>>
    ELSE <<AddedNotices[Len(AddedNotices) - 1].level,
           AddedNotices[Len(AddedNotices)].level>>

\* C17: fill_package_metadata looks the source-URL listing up under
\* 'license' and under no key of its own.  Without a 'license' listing the
\* license and the source URL each give a 'warning' and src_url stays as it
\* was; with it, and an invoker that answers the two identical calls alike,
\* license and source URL are set to the same value or both give an 'error'.
C17_SrcUrlUsesLicenseListing ==
    IsFill =>
        /\ \A e \in DOMAIN LookedUp : LookedUp[e].key \in {"version", "license"}
        /\ Len(LookedUp) = 3
        /\ LookedUp[2].key = "license" /\ LookedUp[3].key = "license"
        /\ ~pkg_listing["license"] =>
               /\ LastTwoLevels = <<"warning", "warning">>
               /\ pkg_obj.src_url = pre.pkg_obj.src_url
               /\ pkg_obj.license = pre.pkg_obj.license
        /\ (pkg_listing["license"] /\ answers.url = answers.license) =>
               IF answers.license.values # <<>>
               THEN /\ pkg_obj.license = answers.license.values[1]
                    /\ pkg_obj.src_url = pkg_obj.license
               ELSE /\ LastTwoLevels = <<"error", "error">>
                    /\ pkg_obj.src_url = pre.pkg_obj.src_url
                    /\ pkg_obj.license = pre.pkg_obj.license

\* the listing has a 'src_url' key and no 'license' key: two warnings and
\* no source URL
C17_Witness ==
    /\ IsFill
    /\ pkg_listing["src_url"]
    /\ ~pkg_listing["license"]
    /\ answers.url.values # <<>>
    /\ LastTwoLevels = <<"warning", "warning">>
    /\ pkg_obj.src_url = UNSET

\* ------------------------------------------------------------------------
\* Ownership of packages (checked under SpecBase)
\* ------------------------------------------------------------------------
\* the Package objects the l-th layer holds
HeldBy(l) == Range(image.layers[l].packages)

\* C18 (as claimed): after add_base_packages no Package object is held by
\* two layers.
C18_NoPackageSharedByLayers ==
    IsBase =>
        \A l1, l2 \in Layers : l1 # l2 => HeldBy(l1) \cap HeldBy(l2) = {}

\* ------------------------------------------------------------------------
\* Order of the command filters (checked under SpecFilter)
\* ------------------------------------------------------------------------
BothFilters == Len(applied) = 2 /\ applied[1] # applied[2]

\* C19: whichever filter runs first, the ignored text names exactly the
\* commands that are set and ignore, the unrecognized text exactly the
\* commands that are not set, and the final list holds the others, so no
\* command is claimed by both filters and the order does not matter.
C19_FiltersCommute ==
    BothFilters =>
        /\ Lines(ignore_commands) =
               ShellCommandsOf(SelectSeq(cmd_input,
                                         LAMBDA c : c.set /\ c.ignore))
        /\ Lines(unrec_commands) =
               ShellCommandsOf(SelectSeq(cmd_input, LAMBDA c : ~c.set))
        /\ work = SelectSeq(cmd_input, LAMBDA c : c.set /\ ~c.ignore)

\* the unrecognized filter ran first on a list that holds a command which
\* is ignore but not set, next to an ignored and a kept command
C19_Witness ==
    /\ applied = <<"unrecognized", "ignored">>
    /\ \E i \in DOMAIN cmd_input : cmd_input[i].ignore /\ ~cmd_input[i].set
    /\ ignore_commands # <<>>
    /\ work # <<>>

\* ------------------------------------------------------------------------
\* The cache round trip (checked under SpecRound)
\* ------------------------------------------------------------------------
\* load_from_cache has run on a rebuilt image without packages, after
\* add_base_packages ran with a listing and a running container on an image
\* whose layers held no package
RoundTrip ==
    /\ IsLoad
    /\ based.state = "renewed"
    /\ based.ran
    /\ based.started_empty
    /\ \A l \in Layers : ~HadPackages(l)

\* the attribute mappings of the packages the layers hold now
HydratedDicts == LayerDicts([image |-> image, heap |-> heap])

\* C20 (as claimed): the load after the base resolution is complete and
\* gives every layer the packages the base resolution left on it, for
\* every outcome of the base resolution.
C20_RoundTripAlwaysComplete ==
    RoundTrip =>
        /\ op.is_full
        /\ HydratedDicts = based.pkgs

\* the base resolution attached a package to every layer
AttachedAll == \A l \in DOMAIN based.pkgs : based.pkgs[l] # <<>>

\* C20 (amended): the load after the base resolution gives every layer the
\* packages the base resolution left on it, and is complete exactly when
\* the base resolution attached packages, that is when names has more than
\* one entry and src_urls is as long as names; otherwise the cached lists
\* are empty, the load is not complete and changes no layer.
C20_RoundTripCompleteIffAttached ==
    RoundTrip =>
        /\ HydratedDicts = based.pkgs
        /\ op.is_full <=> AttachedAll
        /\ AttachedAll <=>
               (Len(InvNames) > 1 /\ Len(InvSrcUrls) = Len(InvNames))
        /\ ~AttachedAll => image = pre.image

\* a complete round trip on two layers, with a version that was left unset
C20_Witness ==
    /\ RoundTrip
    /\ op.is_full
    /\ Len(image.layers) > 1
    /\ \A l \in Layers :
           /\ Len(image.layers[l].packages) = Len(InvNames)
           /\ heap[image.layers[l].packages[1]].version = UNSET
           /\ heap[image.layers[l].packages[1]].src_url = InvSrcUrls[1]

====
